---- MODULE Spec2Model ----
(***************************************************************************)
(* vki2cfile: storing a file into, and reading it back from, an 8 KiB I2C  *)
(* EEPROM.  The model follows src/src/main.rs: one invocation of the tool  *)
(* runs either the Read or the Write subcommand against the device, whose  *)
(* memory is the only state that survives from one invocation to the next. *)
(* Bytes are naturals 0..255, byte sequences are TLA+ sequences, and every *)
(* bus transfer may succeed or fail.  A failed transfer leaves the device  *)
(* memory as it was.                                                       *)
(***************************************************************************)
EXTENDS Integers, Sequences, FiniteSets, TLC

VARIABLES
    mem,              \* device memory: the byte at each address (see Peek)
    fs,               \* paths of the source files the filesystem holds
    pc,               \* position of the running invocation in main
    cmd,              \* the parsed command line (subcommand, flags, path)
    content_buffer,   \* main's content_buffer
    metadata_buffer,  \* main's metadata_buffer
    metadata,         \* main's metadata record
    buffer,           \* the 34-byte chunk buffer of the write loop
    index,            \* the chunk index of the write loop
    bus,              \* transfers and delays of this invocation, in order
    destination,      \* the destination file as this invocation leaves it
    error,            \* the stage whose diagnostic the invocation printed
    runs,             \* invocations started so far
    transport,        \* "faulty": a bus transfer may fail; "reliable": none does
    mem0,             \* history: device memory when the last write started
    src0,             \* history: source path of the last write
    last,             \* history: how the last write ended
    fault             \* history: the content bit that was disturbed, if any

vars == <<mem, fs, pc, cmd, content_buffer, metadata_buffer, metadata,
          buffer, index, bus, destination, error, runs, transport,
          mem0, src0, last, fault>>

----------------------------------------------------------------------------
(* Geometry, main.rs:9-16 *)

EEPROM_SIZE == 8192

METADATA_OFFSET == 0

\* mutant: the content starts at address 16, half-way through the first page
CONTENT_OFFSET_HalfPage == (EEPROM_SIZE \div 256) \div 2

CONTENT_OFFSET == 32

MAX_CONTENT_SIZE == EEPROM_SIZE - CONTENT_OFFSET

\* chunks(32) of the write loop
CHUNK_SIZE == 32

\* std::mem::size_of::<Metadata>() for the repr(C) struct: 28 + 2 + 2
METADATA_SIZE == 32

\* width of u16 values
U16 == 65536

\* most invocations in one behaviour
MaxRuns == 2

Min(a, b) == IF a < b THEN a ELSE b

Zeros(n) == [i \in 1..n |-> 0]

Fill(n, b) == [i \in 1..n |-> b]

----------------------------------------------------------------------------
(* Fixed-width integer encodings *)

\* mutant: the low byte goes first
to_be_bytes_LowFirst(n) == <<n % 256, n \div 256>>

\* u16::to_be_bytes
to_be_bytes(n) == <<n \div 256, n % 256>>

\* bincode's fixed-width little-endian u16
to_le_bytes(n) == <<n % 256, n \div 256>>

from_be_bytes(b) == b[1] * 256 + b[2]

from_le_bytes(b) == b[1] + 256 * b[2]

----------------------------------------------------------------------------
(* CRC-16/USB: polynomial 0x8005 reflected (0xA001), init 0xFFFF,          *)
(* reflected input and output, xorout 0xFFFF.                              *)

RECURSIVE Xor(_, _)
Xor(a, b) ==
    IF a = 0 THEN b
    ELSE IF b = 0 THEN a
    ELSE (((a % 2) + (b % 2)) % 2) + 2 * Xor(a \div 2, b \div 2)

RECURSIVE CrcShift(_, _)
CrcShift(crc, n) ==
    IF n = 0 THEN crc
    ELSE CrcShift(IF crc % 2 = 1 THEN Xor(crc \div 2, 40961) ELSE crc \div 2,
                  n - 1)

\* the byte-indexed lookup table of the crc crate
CrcTable == [b \in 0..255 |-> CrcShift(b, 8)]

\* mutant: the data byte is left out of the table index
CrcUpdateByte_NoData(crc, b) ==
    Xor(CrcTable[crc % 256], crc \div 256)

CrcUpdateByte(crc, b) ==
    Xor(CrcTable[Xor(crc % 256, b)], crc \div 256)

\* the running CRC after bytes lo..hi of s.  The fold is split in halves and
\* each half's result is bound as a value before the next half starts, so
\* that long inputs do not nest deeply.
RECURSIVE CrcUpdate(_, _, _, _)
CrcUpdate(crc, s, lo, hi) ==
    IF lo > hi THEN crc
    ELSE IF lo = hi THEN CrcUpdateByte(crc, s[lo])
    ELSE LET mid == (lo + hi) \div 2
         IN  CHOOSE r \in {CrcUpdate(left, s, mid + 1, hi) :
                              left \in {CrcUpdate(crc, s, lo, mid)}} : TRUE

\* CRC.checksum
checksum(s) == Xor(CrcUpdate(65535, s, 1, Len(s)), 65535)

----------------------------------------------------------------------------
(* Metadata codec (bincode, fixed-width little-endian, no length prefix)   *)

\* mutant: the unused field is one byte short
Metadata_ShortUnused(crc, size) ==
    [unused |-> Zeros(27), content_crc |-> crc, content_size |-> size]

\* main.rs:27-33 and 158-162: unused is Default::default(), 28 zero bytes
Metadata(crc, size) ==
    [unused |-> Zeros(28), content_crc |-> crc, content_size |-> size]

NoMetadata == [unused |-> <<>>, content_crc |-> 0, content_size |-> 0]

\* mutant: the two integers are encoded big-endian
serialize_into_BigEndian(buf, m) ==
    buf \o m.unused \o to_be_bytes(m.content_crc) \o to_be_bytes(m.content_size)

\* bincode::serialize_into appends the encoding to the buffer
serialize_into(buf, m) ==
    buf \o m.unused \o to_le_bytes(m.content_crc) \o to_le_bytes(m.content_size)

\* bincode::deserialize: Err when the input ends early
deserialize(b) ==
    IF Len(b) < 32
    THEN [ok |-> FALSE, value |-> NoMetadata]
    ELSE [ok |-> TRUE,
          value |-> [unused |-> SubSeq(b, 1, 28),
                     content_crc |-> from_le_bytes(SubSeq(b, 29, 30)),
                     content_size |-> from_le_bytes(SubSeq(b, 31, 32))]]

----------------------------------------------------------------------------
(* The device behind the bus.  Its memory is kept as the byte an address   *)
(* holds when it was never programmed (fill) and the bytes of the          *)
(* addresses that hold something else; Peek gives the byte at an address.  *)

Blank(fill) == [fill |-> fill, bytes |-> [a \in {} |-> 0]]

Peek(m, a) == IF a \in DOMAIN m.bytes THEN m.bytes[a] ELSE m.fill

\* the memory after data is stored at consecutive addresses from offset;
\* an address that comes to hold the fill byte is dropped from bytes
Poke(m, offset, data) ==
    LET touched == {(offset + i - 1) % EEPROM_SIZE : i \in 1..Len(data)}
        merged == [a \in touched |-> data[((a - offset) % EEPROM_SIZE) + 1]]
                     @@ m.bytes
        held == {a \in DOMAIN merged : merged[a] # m.fill}
    IN  [fill |-> m.fill,
         bytes |-> IF \A a \in touched : merged[a] # m.fill
                   THEN merged
                   ELSE [a \in held |-> merged[a]]]

\* mutant: the address bytes are stored as payload too
DevWrite_KeepsAddress(m, buf) == Poke(m, from_be_bytes(buf), buf)

\* device.write(buf): two big-endian address bytes, then the payload
DevWrite(m, buf) == Poke(m, from_be_bytes(buf), SubSeq(buf, 3, Len(buf)))

\* device.transfer([write(offset), read(n bytes)])
DevRead(m, offsetBytes, n) ==
    [i \in 1..n |-> Peek(m, (from_be_bytes(offsetBytes) + i - 1) % EEPROM_SIZE)]

\* the outcomes a bus transfer can have
Outcomes == IF transport = "reliable" THEN {TRUE} ELSE BOOLEAN

----------------------------------------------------------------------------
(* The filesystem: the content read_to_end yields for each source path     *)

Source(path) ==
    CASE path = "empty"    -> <<>>
      [] path = "hello"    -> <<104, 101, 108, 108, 111>>
      [] path = "page"     -> [i \in 1..32 |-> i]
      [] path = "fileA"    -> Fill(32, 65) \o <<19, 96, 49>>
      [] path = "fileB"    -> Fill(32, 66) \o <<16, 32, 48>>
      [] path = "max"      -> [i \in 1..MAX_CONTENT_SIZE |-> (i * 7) % 256]
      [] path = "oversize" -> [i \in 1..(MAX_CONTENT_SIZE + 1) |-> (i * 5) % 256]
      [] OTHER             -> <<>>

Files == {"empty", "hello", "page", "fileA", "fileB", "oversize"}

LargeFiles == {"empty", "max", "oversize"}

\* a path File::open fails on
NoSuchFile == "missing"

----------------------------------------------------------------------------
(* Device states an invocation may find *)

Erased == Blank(255)

Zeroed == Blank(0)

\* the image a completed write of s leaves on an erased device
Stored(s) ==
    Poke(Poke(Erased, CONTENT_OFFSET, s), METADATA_OFFSET,
         serialize_into(<<>>, Metadata(checksum(s), Len(s))))

\* a device whose metadata names one byte more than the content region holds
Overlong ==
    Poke(Zeroed, METADATA_OFFSET,
         serialize_into(<<>>, Metadata(0, MAX_CONTENT_SIZE + 1)))

NotWritten == [written |-> FALSE, bytes |-> <<>>]

NoCommand == [sub |-> "none", ignore_crc |-> FALSE, allow_empty |-> FALSE,
              path |-> ""]

InitLocals ==
    /\ pc = "idle"
    /\ cmd = NoCommand
    /\ content_buffer = <<>>
    /\ metadata_buffer = <<>>
    /\ metadata = NoMetadata
    /\ buffer = <<>>
    /\ index = 0
    /\ bus = <<>>
    /\ destination = NotWritten
    /\ error = "none"
    /\ runs = 0
    /\ mem0 = mem
    /\ src0 = ""
    /\ last = "none"
    /\ fault = <<>>

Init ==
    /\ fs = Files
    /\ transport = "faulty"
    /\ mem \in {Erased, Zeroed, Overlong, Stored(Source("fileA"))}
    /\ InitLocals

\* the largest file the device takes, over a bus that does not fail
InitMax ==
    /\ fs = LargeFiles
    /\ transport = "reliable"
    /\ mem \in {Erased, Stored(Source("fileA"))}
    /\ InitLocals

\* a device that holds a written file, about to be disturbed and read
InitFlip ==
    /\ fs = Files
    /\ transport = "faulty"
    /\ mem \in {Stored(Source("hello")), Stored(Source("fileA"))}
    /\ InitLocals

----------------------------------------------------------------------------
(* Entries of the bus log *)

BusWrite(region, buf, ok) ==
    [kind |-> "write", region |-> region, offset |-> from_be_bytes(buf),
     size |-> Len(buf) - 2, data |-> SubSeq(buf, 3, Len(buf)), ok |-> ok]

BusRead(region, offsetBytes, n, ok) ==
    [kind |-> "read", region |-> region, offset |-> from_be_bytes(offsetBytes),
     size |-> n, data |-> <<>>, ok |-> ok]

Delay == [kind |-> "delay", region |-> "none", offset |-> 0, size |-> 0,
          data |-> <<>>, ok |-> TRUE]

CanStart == pc = "idle" /\ runs < MaxRuns

\* mutant: the failure of a transfer is ignored
AfterTransfer_Continue(ok, next) == next

\* where main goes after a bus transfer: on, or abort()
AfterTransfer(ok, next) == IF ok THEN next ELSE "aborted"

----------------------------------------------------------------------------
(* Sub::Write *)

\* mutant: the source is measured against the whole device
TooLarge_Device(file_size) == file_size > EEPROM_SIZE

\* main.rs:153: the size check
TooLarge(file_size) == file_size > MAX_CONTENT_SIZE

\* main.rs:141-171: open the device, read the source, check its size, build
\* and encode the metadata record, check the encoded size
WriteFrom(path, device) ==
    LET opened == device /\ path \in fs
        content == IF opened THEN Source(path) ELSE <<>>
        file_size == Len(content)
        fits == ~TooLarge(file_size)
        m == IF opened /\ fits
             THEN Metadata(checksum(content), file_size % U16)
             ELSE NoMetadata
        encoded == IF opened /\ fits
                   THEN serialize_into(to_be_bytes(METADATA_OFFSET), m)
                   ELSE to_be_bytes(METADATA_OFFSET)
        sane == Len(encoded) - 2 = METADATA_SIZE
    IN  /\ CanStart
        /\ cmd' = [sub |-> "write", ignore_crc |-> FALSE,
                   allow_empty |-> FALSE, path |-> path]
        /\ content_buffer' = content
        /\ metadata' = m
        /\ metadata_buffer' = encoded
        /\ pc' = IF opened /\ fits /\ sane THEN "w_meta" ELSE "aborted"
        /\ error' = IF ~device THEN "open_device"
                    ELSE IF ~opened THEN "read_source"
                    ELSE IF ~fits THEN "too_large"
                    ELSE IF ~sane THEN "internal"
                    ELSE "none"
        /\ src0' = path
        /\ mem0' = mem
        /\ last' = IF opened /\ fits /\ sane THEN "running" ELSE "rejected"
        /\ buffer' = <<>>
        /\ index' = 0
        /\ bus' = <<>>
        /\ destination' = NotWritten
        /\ runs' = runs + 1
        /\ UNCHANGED <<mem, fs, transport, fault>>

WriteBegin ==
    \E path \in fs \cup {NoSuchFile}, device \in Outcomes :
        WriteFrom(path, device)

\* main.rs:173-177: device.write(metadata_buffer)
WriteMetadata ==
    /\ pc = "w_meta"
    /\ \E ok \in Outcomes :
        /\ bus' = Append(bus, BusWrite("metadata", metadata_buffer, ok))
        /\ mem' = IF ok THEN DevWrite(mem, metadata_buffer) ELSE mem
        /\ pc' = AfterTransfer(ok, "w_sleep")
        /\ error' = IF ok THEN error ELSE "write_metadata"
        /\ last' = IF ok THEN last ELSE "aborted"
    /\ UNCHANGED <<fs, cmd, content_buffer, metadata_buffer, metadata, buffer,
                   index, destination, runs, transport, mem0, src0, fault>>

\* number of chunks content_buffer.chunks(32) yields
NumChunks(s) == (Len(s) + CHUNK_SIZE - 1) \div CHUNK_SIZE

\* mutant: the sleep is left out
WriteSleep_NoDelay ==
    /\ pc = "w_sleep"
    /\ buffer' = IF buffer = <<>> THEN Zeros(34) ELSE buffer
    /\ pc' = IF index < NumChunks(content_buffer) THEN "w_chunk" ELSE "done"
    /\ last' = IF index < NumChunks(content_buffer) THEN last ELSE "done"
    /\ UNCHANGED <<mem, fs, cmd, content_buffer, metadata_buffer, metadata,
                   index, bus, destination, error, runs, transport, mem0,
                   src0, fault>>

\* main.rs:179-184 and 196: the sleep after a successful write; after the
\* first one the chunk buffer is allocated; then the loop takes the next
\* chunk or ends and main returns
WriteSleep ==
    /\ pc = "w_sleep"
    /\ bus' = Append(bus, Delay)
    /\ buffer' = IF buffer = <<>> THEN Zeros(34) ELSE buffer
    /\ pc' = IF index < NumChunks(content_buffer) THEN "w_chunk" ELSE "done"
    /\ last' = IF index < NumChunks(content_buffer) THEN last ELSE "done"
    /\ UNCHANGED <<mem, fs, cmd, content_buffer, metadata_buffer, metadata,
                   index, destination, error, runs, transport, mem0, src0,
                   fault>>

\* mutant: a short last chunk is padded with zeros to the chunk size
Chunk_Padded(s, i) ==
    [j \in 1..CHUNK_SIZE |->
        IF CHUNK_SIZE * i + j <= Len(s) THEN s[CHUNK_SIZE * i + j] ELSE 0]

\* the chunk the iterator yields at index i
Chunk(s, i) ==
    SubSeq(s, CHUNK_SIZE * i + 1, Min(CHUNK_SIZE * i + CHUNK_SIZE, Len(s)))

\* mutant: the content offset is left out
ChunkOffset_NoBase(i) == (32 * (i % U16)) % U16

\* main.rs:185: CONTENT_OFFSET + 32 * (index as u16), in u16 arithmetic
ChunkOffset(i) == (CONTENT_OFFSET + ((32 * (i % U16)) % U16)) % U16

\* main.rs:184-194: one iteration of the chunk loop up to device.write
WriteChunk ==
    /\ pc = "w_chunk"
    /\ LET chunk == Chunk(content_buffer, index)
           offset == ChunkOffset(index)
           size == 2 + Len(chunk)
           filled == [i \in 1..34 |->
                        IF i <= 2 THEN to_be_bytes(offset)[i]
                        ELSE IF i <= size THEN chunk[i - 2]
                        ELSE buffer[i]]
       IN  /\ buffer' = filled
           /\ \E ok \in Outcomes :
                /\ bus' = Append(bus, BusWrite("content",
                                               SubSeq(filled, 1, size), ok))
                /\ mem' = IF ok THEN DevWrite(mem, SubSeq(filled, 1, size))
                          ELSE mem
                /\ pc' = AfterTransfer(ok, "w_sleep")
                /\ error' = IF ok THEN error ELSE "write_content"
                /\ last' = IF ok THEN last ELSE "aborted"
                /\ index' = IF ok THEN index + 1 ELSE index
    /\ UNCHANGED <<fs, cmd, content_buffer, metadata_buffer, metadata,
                   destination, runs, transport, mem0, src0, fault>>

----------------------------------------------------------------------------
(* Sub::Read *)

\* main.rs:88-89: open the device, allocate the metadata buffer
ReadBegin ==
    /\ CanStart
    /\ \E ignore_crc \in BOOLEAN, allow_empty \in BOOLEAN :
        cmd' = [sub |-> "read", ignore_crc |-> ignore_crc,
                allow_empty |-> allow_empty, path |-> "destination"]
    /\ \E device \in Outcomes :
        /\ pc' = IF device THEN "r_meta" ELSE "aborted"
        /\ error' = IF device THEN "none" ELSE "open_device"
        /\ metadata_buffer' = IF device THEN Zeros(METADATA_SIZE) ELSE <<>>
    /\ content_buffer' = <<>>
    /\ metadata' = NoMetadata
    /\ buffer' = <<>>
    /\ index' = 0
    /\ bus' = <<>>
    /\ destination' = NotWritten
    /\ runs' = runs + 1
    /\ UNCHANGED <<mem, fs, transport, mem0, src0, last, fault>>

\* main.rs:91-97: the metadata transfer
ReadMetadata ==
    /\ pc = "r_meta"
    /\ \E ok \in Outcomes :
        /\ bus' = Append(bus, BusRead("metadata", to_be_bytes(METADATA_OFFSET),
                                      Len(metadata_buffer), ok))
        /\ metadata_buffer' =
              IF ok THEN DevRead(mem, to_be_bytes(METADATA_OFFSET),
                                 Len(metadata_buffer))
              ELSE metadata_buffer
        /\ pc' = AfterTransfer(ok, "r_validate")
        /\ error' = IF ok THEN error ELSE "read_metadata"
    /\ UNCHANGED <<mem, fs, cmd, content_buffer, metadata, buffer, index,
                   destination, runs, transport, mem0, src0, last, fault>>

\* mutant: the stored size is measured against the whole device
SizeInvalid_Device(m) == m.content_size > EEPROM_SIZE

\* main.rs:106: the bound on the stored size
SizeInvalid(m) == m.content_size > MAX_CONTENT_SIZE

\* mutant: the flag is read the wrong way round
EmptyRefused_Inverted(allow_empty, m) == allow_empty /\ m.content_size = 0

\* main.rs:111: the emptiness policy
EmptyRefused(allow_empty, m) == ~allow_empty /\ m.content_size = 0

\* main.rs:99-116: sleep, decode, bound check, emptiness check, allocate
ReadValidate ==
    /\ pc = "r_validate"
    /\ bus' = Append(bus, Delay)
    /\ LET decoded == deserialize(metadata_buffer)
           m == decoded.value
           stage == IF ~decoded.ok THEN "invalid_metadata"
                    ELSE IF SizeInvalid(m) THEN "size"
                    ELSE IF EmptyRefused(cmd.allow_empty, m) THEN "empty"
                    ELSE "none"
       IN  /\ metadata' = m
           /\ error' = stage
           /\ content_buffer' = IF stage = "none" THEN Zeros(m.content_size)
                                ELSE content_buffer
           /\ pc' = IF stage = "none" THEN "r_content" ELSE "aborted"
    /\ UNCHANGED <<mem, fs, cmd, metadata_buffer, buffer, index, destination,
                   runs, transport, mem0, src0, last, fault>>

\* mutant: the content is fetched from the start of the device
ReadContent_FromStart ==
    /\ pc = "r_content"
    /\ \E ok \in Outcomes :
        /\ bus' = Append(bus, BusRead("content", to_be_bytes(METADATA_OFFSET),
                                      Len(content_buffer), ok))
        /\ content_buffer' =
              IF ok THEN DevRead(mem, to_be_bytes(METADATA_OFFSET),
                                 Len(content_buffer))
              ELSE content_buffer
        /\ pc' = AfterTransfer(ok, "r_check")
        /\ error' = IF ok THEN error ELSE "read_content"
    /\ UNCHANGED <<mem, fs, cmd, metadata_buffer, metadata, buffer, index,
                   destination, runs, transport, mem0, src0, last, fault>>

\* main.rs:118-124: the content transfer
ReadContent ==
    /\ pc = "r_content"
    /\ \E ok \in Outcomes :
        /\ bus' = Append(bus, BusRead("content", to_be_bytes(CONTENT_OFFSET),
                                      Len(content_buffer), ok))
        /\ content_buffer' =
              IF ok THEN DevRead(mem, to_be_bytes(CONTENT_OFFSET),
                                 Len(content_buffer))
              ELSE content_buffer
        /\ pc' = AfterTransfer(ok, "r_check")
        /\ error' = IF ok THEN error ELSE "read_content"
    /\ UNCHANGED <<mem, fs, cmd, metadata_buffer, metadata, buffer, index,
                   destination, runs, transport, mem0, src0, last, fault>>

\* mutant: the comparison is never made
CrcRefused_Off(ignore_crc, content, m) == FALSE

\* main.rs:126-133: the CRC comparison, skipped under --ignore-crc
CrcRefused(ignore_crc, content, m) ==
    ~ignore_crc /\ checksum(content) # m.content_crc

\* main.rs:135: what a failed fs::write (create and truncate the file, then
\* write_all) can leave: the destination untouched when the file could not
\* be created, else the file truncated and holding the bytes that were
\* written before the failure, here none or the first half
FsWriteFailure(contents) ==
    {NotWritten} \cup
    {[written |-> TRUE, bytes |-> SubSeq(contents, 1, n)] :
        n \in {0, Len(contents) \div 2}}

\* mutant: the destination is written before the CRC comparison
ReadDeliver_WritesFirst ==
    /\ pc = "r_check"
    /\ \E ok \in BOOLEAN, failed \in FsWriteFailure(content_buffer) :
        LET refused == CrcRefused(cmd.ignore_crc, content_buffer, metadata)
        IN  /\ destination' = IF ok THEN [written |-> TRUE,
                                          bytes |-> content_buffer]
                              ELSE failed
            /\ pc' = IF ok /\ ~refused THEN "done" ELSE "aborted"
            /\ error' = IF ~ok THEN "write_destination"
                        ELSE IF refused THEN "crc" ELSE error
    /\ UNCHANGED <<mem, fs, cmd, content_buffer, metadata_buffer, metadata,
                   buffer, index, bus, runs, transport, mem0, src0, last, fault>>

\* main.rs:126-138: the CRC comparison, then fs::write to the destination
ReadDeliver ==
    /\ pc = "r_check"
    /\ IF CrcRefused(cmd.ignore_crc, content_buffer, metadata)
       THEN /\ pc' = "aborted"
            /\ error' = "crc"
            /\ UNCHANGED destination
       ELSE \E ok \in BOOLEAN, failed \in FsWriteFailure(content_buffer) :
            /\ destination' = IF ok THEN [written |-> TRUE,
                                          bytes |-> content_buffer]
                              ELSE failed
            /\ pc' = IF ok THEN "done" ELSE "aborted"
            /\ error' = IF ok THEN error ELSE "write_destination"
    /\ UNCHANGED <<mem, fs, cmd, content_buffer, metadata_buffer, metadata,
                   buffer, index, bus, runs, transport, mem0, src0, last, fault>>

----------------------------------------------------------------------------

\* the process ends: main returned or abort() was called; only the device
\* keeps its state
Exit ==
    /\ pc \in {"done", "aborted"}
    /\ pc' = "idle"
    /\ cmd' = NoCommand
    /\ content_buffer' = <<>>
    /\ metadata_buffer' = <<>>
    /\ metadata' = NoMetadata
    /\ buffer' = <<>>
    /\ index' = 0
    /\ bus' = <<>>
    /\ destination' = NotWritten
    /\ error' = "none"
    /\ UNCHANGED <<mem, fs, runs, transport, mem0, src0, last, fault>>

Next ==
    \/ WriteBegin
    \/ WriteMetadata
    \/ WriteSleep
    \/ WriteChunk
    \/ ReadBegin
    \/ ReadMetadata
    \/ ReadValidate
    \/ ReadContent
    \/ ReadDeliver
    \/ Exit

Spec == Init /\ [][Next]_vars

SpecMax == InitMax /\ [][Next]_vars

----------------------------------------------------------------------------
(* What a device image holds, as the read path would decode it *)

MetadataOn(m) ==
    deserialize(DevRead(m, to_be_bytes(METADATA_OFFSET), METADATA_SIZE)).value

FileOn(m) ==
    DevRead(m, to_be_bytes(CONTENT_OFFSET), MetadataOn(m).content_size)

\* the image holds a non-empty file a default read delivers
ValidFile(m) ==
    /\ MetadataOn(m).content_size \in 1..MAX_CONTENT_SIZE
    /\ checksum(FileOn(m)) = MetadataOn(m).content_crc

----------------------------------------------------------------------------
(* Corruption of the stored content: one bit of a stored file's content    *)
(* changes while no invocation runs; the metadata stays as written.        *)

Pow2(n) == IF n = 0 THEN 1 ELSE IF n = 1 THEN 2 ELSE IF n = 2 THEN 4
           ELSE IF n = 3 THEN 8 ELSE IF n = 4 THEN 16 ELSE IF n = 5 THEN 32
           ELSE IF n = 6 THEN 64 ELSE 128

FlipBitOf(b, bit) ==
    IF (b \div Pow2(bit)) % 2 = 1 THEN b - Pow2(bit) ELSE b + Pow2(bit)

FlipBit ==
    /\ pc = "idle"
    /\ fault = <<>>
    /\ ValidFile(mem)
    /\ \E i \in 0..(MetadataOn(mem).content_size - 1), bit \in 0..7 :
        /\ mem' = Poke(mem, CONTENT_OFFSET + i,
                       <<FlipBitOf(Peek(mem, CONTENT_OFFSET + i), bit)>>)
        /\ fault' = <<CONTENT_OFFSET + i, bit>>
    /\ UNCHANGED <<fs, pc, cmd, content_buffer, metadata_buffer, metadata,
                   buffer, index, bus, destination, error, runs, transport,
                   mem0, src0, last>>

NextFlip ==
    \/ FlipBit
    \/ ReadBegin
    \/ ReadMetadata
    \/ ReadValidate
    \/ ReadContent
    \/ ReadDeliver
    \/ Exit

SpecFlip == InitFlip /\ [][NextFlip]_vars

----------------------------------------------------------------------------
(* The metadata codec on its own: the write path from the construction of  *)
(* the record (main.rs:158) on, for records whose two fields are drawn     *)
(* from their u16 range instead of being computed from a source file.      *)

\* values of content_crc: the ends of the range, one-byte and two-byte
\* values, the CRC of "hello"
CrcSamples == {0, 1, 255, 256, 51977, 65535}

\* values of content_size up to the largest the size check lets through
SizeSamples == {0, 1, 255, 256, MAX_CONTENT_SIZE}

InitCodec ==
    /\ fs = {}
    /\ transport = "faulty"
    /\ mem \in {Erased, Zeroed}
    /\ InitLocals

\* main.rs:158-171: build the record, encode it after the two address
\* bytes, check the encoded size
EncodeRecord ==
    /\ CanStart
    /\ \E crc \in CrcSamples, size \in SizeSamples :
        LET m == Metadata(crc, size)
            encoded == serialize_into(to_be_bytes(METADATA_OFFSET), m)
            sane == Len(encoded) - 2 = METADATA_SIZE
        IN  /\ metadata' = m
            /\ metadata_buffer' = encoded
            /\ pc' = IF sane THEN "w_meta" ELSE "aborted"
            /\ error' = IF sane THEN "none" ELSE "internal"
            /\ last' = IF sane THEN "running" ELSE "rejected"
    /\ cmd' = [sub |-> "write", ignore_crc |-> FALSE, allow_empty |-> FALSE,
               path |-> "record"]
    /\ content_buffer' = <<>>
    /\ src0' = "record"
    /\ mem0' = mem
    /\ buffer' = <<>>
    /\ index' = 0
    /\ bus' = <<>>
    /\ destination' = NotWritten
    /\ runs' = runs + 1
    /\ UNCHANGED <<mem, fs, transport, fault>>

NextCodec ==
    \/ EncodeRecord
    \/ WriteMetadata
    \/ WriteSleep
    \/ Exit

SpecCodec == InitCodec /\ [][NextCodec]_vars

----------------------------------------------------------------------------
(* Shorthands of the properties *)

\* positions in the bus log of the write path's two kinds of write
MetadataWrites ==
    {i \in DOMAIN bus : bus[i].kind = "write" /\ bus[i].region = "metadata"}

ContentWrites ==
    {i \in DOMAIN bus : bus[i].kind = "write" /\ bus[i].region = "content"}

Transfers == {i \in DOMAIN bus : bus[i].kind \in {"write", "read"}}

DefaultFlags == ~cmd.ignore_crc /\ ~cmd.allow_empty

\* the diagnostics of a device that does not open, of a failed bus transfer
\* and of a failed destination write
TransportOrSink ==
    {"open_device", "read_metadata", "read_content", "write_destination"}

----------------------------------------------------------------------------
(* C1: in the write path every content chunk write is issued before the    *)
(* metadata write, and the metadata write is the last bus write of a       *)
(* completed write.  The code writes the metadata first.                   *)
C1_ContentBeforeMetadata ==
    cmd.sub = "write" =>
        /\ \A i \in ContentWrites, j \in MetadataWrites : i < j
        /\ pc = "done" =>
              /\ MetadataWrites # {}
              /\ \A i \in Transfers, j \in MetadataWrites : i <= j

(* C2: a write interrupted by a transport failure leaves the device with   *)
(* the old image or with the complete new file (new metadata and all of    *)
(* the new content), and a failed metadata write leaves the old metadata.  *)
HoldsNewFile ==
    /\ DevRead(mem, to_be_bytes(METADATA_OFFSET), METADATA_SIZE)
          = SubSeq(metadata_buffer, 3, Len(metadata_buffer))
    /\ DevRead(mem, to_be_bytes(CONTENT_OFFSET), Len(content_buffer))
          = content_buffer

C2_AbortLeavesOldOrNew ==
    (cmd.sub = "write" /\ pc = "aborted"
        /\ error \in {"write_metadata", "write_content"}) =>
        /\ mem = mem0 \/ HoldsNewFile
        /\ error = "write_metadata" =>
              DevRead(mem, to_be_bytes(METADATA_OFFSET), METADATA_SIZE)
                = DevRead(mem0, to_be_bytes(METADATA_OFFSET), METADATA_SIZE)

(* C3: a default read that succeeds after a write of B over a valid file A *)
(* was aborted by a transport failure.                                     *)
ReadAfterAbortedWrite ==
    /\ cmd.sub = "read"
    /\ pc = "done"
    /\ DefaultFlags
    /\ last = "aborted"
    /\ ValidFile(mem0)

\* B's first k chunks over what the device held before
Torn(B, m0, k) ==
    [i \in 1..Len(B) |->
        IF i <= CHUNK_SIZE * k THEN B[i] ELSE Peek(m0, CONTENT_OFFSET + i - 1)]

\* C3 as stated: such a read delivers exactly A or exactly B
C3_ReadDeliversAOrB ==
    ReadAfterAbortedWrite =>
        destination.bytes \in {FileOn(mem0), Source(src0)}

\* C3 amended: such a read delivers A, or bytes of B's length and B's
\* CRC-16 that are B's first k whole chunks followed by the bytes the device
\* held before
C3_ReadDeliversAOrCrcEqual ==
    ReadAfterAbortedWrite =>
        \/ destination.bytes = FileOn(mem0)
        \/ /\ Len(destination.bytes) = Len(Source(src0))
           /\ checksum(destination.bytes) = checksum(Source(src0))
           /\ \E k \in 0..NumChunks(Source(src0)) :
                 destination.bytes = Torn(Source(src0), mem0, k)

\* a torn file that is neither A nor B is delivered
C3_Witness ==
    /\ ReadAfterAbortedWrite
    /\ destination.written
    /\ destination.bytes # FileOn(mem0)
    /\ destination.bytes # Source(src0)

(* C4: a read after a write that completed returns the written bytes when  *)
(* the file is not empty; an empty file is refused without --allow-empty   *)
(* and delivered empty with it.  A read comes to nothing only through a    *)
(* failed transfer or a failed destination write.                          *)
C4_RoundTrip ==
    (cmd.sub = "read" /\ last = "done" /\ pc \in {"done", "aborted"}) =>
        LET B == Source(src0)
        IN  IF Len(B) > 0
            THEN DefaultFlags =>
                    /\ pc = "done" =>
                          destination = [written |-> TRUE, bytes |-> B]
                    /\ pc = "aborted" => error \in TransportOrSink
            ELSE /\ ~cmd.allow_empty =>
                        /\ pc = "aborted"
                        /\ ~destination.written
                        /\ error \in {"open_device", "read_metadata", "empty"}
                 /\ (cmd.allow_empty /\ ~cmd.ignore_crc) =>
                        /\ pc = "done" =>
                              destination = [written |-> TRUE, bytes |-> <<>>]
                        /\ pc = "aborted" => error \in TransportOrSink

\* a file of two chunks came back
C4_Witness ==
    /\ cmd.sub = "read"
    /\ last = "done"
    /\ pc = "done"
    /\ DefaultFlags
    /\ Len(destination.bytes) = 35
    /\ destination = [written |-> TRUE, bytes |-> Source(src0)]

(* C5: a source longer than MAX_CONTENT_SIZE aborts the write before any   *)
(* bus write: the bus log is empty and the device memory is untouched.     *)
C5_OversizeNoBusWrite ==
    (cmd.sub = "write" /\ Len(content_buffer) > MAX_CONTENT_SIZE) =>
        /\ pc = "aborted"
        /\ error = "too_large"
        /\ bus = <<>>
        /\ mem = mem0

C5_Witness ==
    /\ cmd.sub = "write"
    /\ Len(content_buffer) = MAX_CONTENT_SIZE + 1
    /\ pc = "aborted"

(* C6: after one bit of a stored file's content is flipped, a read without  *)
(* --ignore-crc delivers nothing and, unless a transfer fails first, aborts *)
(* at the CRC comparison; a read with --ignore-crc delivers the stored      *)
(* bytes with the flipped bit unless a transfer or the destination fails.   *)
Disturbed(s) ==
    [i \in 1..Len(s) |->
        IF CONTENT_OFFSET + i - 1 = fault[1] THEN FlipBitOf(s[i], fault[2])
        ELSE s[i]]

C6_ChecksumSensitivity ==
    (cmd.sub = "read" /\ fault # <<>>) =>
        IF cmd.ignore_crc
        THEN /\ pc = "aborted" => error \in TransportOrSink
             /\ pc = "done" =>
                   /\ destination.written
                   /\ destination.bytes = FileOn(mem)
                   /\ destination.bytes = Disturbed(FileOn(mem0))
                   /\ destination.bytes # FileOn(mem0)
        ELSE /\ ~destination.written
             /\ pc # "done"
             /\ pc = "aborted" =>
                   error \in {"open_device", "read_metadata", "read_content",
                              "crc"}

\* a read of the disturbed file was refused at the CRC comparison
C6_Witness ==
    /\ cmd.sub = "read"
    /\ fault # <<>>
    /\ DefaultFlags
    /\ pc = "aborted"
    /\ error = "crc"

(* C7: a read whose decoded content_size exceeds MAX_CONTENT_SIZE aborts   *)
(* whatever the flags: no content read is issued, no buffer of a clamped   *)
(* length is made, nothing reaches the destination.                        *)
C7_OverlongAborts ==
    (cmd.sub = "read" /\ metadata.content_size > MAX_CONTENT_SIZE) =>
        /\ pc = "aborted"
        /\ error = "size"
        /\ \A i \in DOMAIN bus : bus[i].region # "content"
        /\ content_buffer = <<>>
        /\ ~destination.written

C7_Witness ==
    /\ cmd.sub = "read"
    /\ cmd.ignore_crc
    /\ cmd.allow_empty
    /\ metadata.content_size = MAX_CONTENT_SIZE + 1
    /\ pc = "aborted"

(* C8: a read that decodes content_size 0 without --allow-empty aborts     *)
(* before the content read and delivers nothing; with --allow-empty the    *)
(* zero size does not abort it and an empty result can be delivered.       *)
DecodedEmpty ==
    /\ cmd.sub = "read"
    /\ Len(bus) >= 2
    /\ bus[1].ok
    /\ metadata.content_size = 0

C8_EmptyPolicy ==
    DecodedEmpty =>
        IF cmd.allow_empty
        THEN /\ error \notin {"empty", "size", "invalid_metadata"}
             /\ pc = "aborted" => error \in {"read_content", "crc",
                                             "write_destination"}
             /\ destination.written => destination.bytes = <<>>
        ELSE /\ pc = "aborted"
             /\ error = "empty"
             /\ \A i \in DOMAIN bus : bus[i].region # "content"
             /\ ~destination.written

\* an empty result was delivered under --allow-empty
C8_Witness ==
    /\ DecodedEmpty
    /\ cmd.allow_empty
    /\ pc = "done"
    /\ destination = [written |-> TRUE, bytes |-> <<>>]

(* C9: a failed bus transfer is the last entry of its invocation's bus log *)
(* and leaves the invocation aborted: no transfer is repeated or issued    *)
(* after it, in the read path and in the write path.                       *)
C9_FailureIsTerminal ==
    \A i \in DOMAIN bus :
        ~bus[i].ok => (i = Len(bus) /\ pc = "aborted")

\* a chunk write failed after earlier transfers succeeded
C9_Witness ==
    /\ cmd.sub = "write"
    /\ Len(bus) >= 3
    /\ ~bus[Len(bus)].ok
    /\ bus[Len(bus)].region = "content"

(* C10: a write that meets no transport failure issues ceil(L / 32)        *)
(* content chunk writes; the i-th (from 0) goes to CONTENT_OFFSET + 32 * i *)
(* and carries source bytes [32 * i, min(32 * i + 32, L)); none for L = 0. *)
CeilDiv(n, d) == IF n % d = 0 THEN n \div d ELSE (n \div d) + 1

C10_Chunking ==
    cmd.sub = "write" =>
        LET L == Len(content_buffer)
            cw == SelectSeq(bus, LAMBDA e : e.kind = "write"
                                            /\ e.region = "content")
        IN  /\ \A i \in 1..Len(cw) :
                  /\ cw[i].offset = CONTENT_OFFSET + 32 * (i - 1)
                  /\ cw[i].data =
                        [j \in 1..(Min(32 * i, L) - 32 * (i - 1)) |->
                            content_buffer[32 * (i - 1) + j]]
            /\ pc = "done" =>
                  /\ Len(cw) = CeilDiv(L, 32)
                  /\ \A i \in 1..Len(cw) : cw[i].ok

\* a write of two chunks, the second one short, completed
C10_Witness ==
    /\ cmd.sub = "write"
    /\ pc = "done"
    /\ Len(content_buffer) = 35
    /\ Cardinality(ContentWrites) = 2

(* C11: the encoded metadata record is exactly 32 bytes for every record,  *)
(* the empty record and the record of content_size MAX_CONTENT_SIZE and    *)
(* content_crc 0xFFFF included; the write path compares the encoded size   *)
(* before the metadata bus write and, if it differs, aborts with the       *)
(* internal error without any bus write.                                   *)
C11_MetadataSize ==
    cmd.sub = "write" =>
        /\ Len(serialize_into(<<>>, metadata)) = 32
        /\ Len(metadata_buffer) = 2 + 32
        /\ \A i \in MetadataWrites : bus[i].size = 32 /\ i = 1
        /\ IF Len(metadata_buffer) - 2 = METADATA_SIZE
           THEN error # "internal"
           ELSE pc = "aborted" /\ error = "internal" /\ bus = <<>>

\* the record of the largest field values was encoded and put on the bus
C11_Witness ==
    /\ cmd.sub = "write"
    /\ metadata = Metadata(65535, MAX_CONTENT_SIZE)
    /\ MetadataWrites # {}
    /\ bus[1].data = Zeros(28) \o <<255, 255, 224, 31>>

(* C12: after a write of content of length L <= MAX_CONTENT_SIZE that      *)
(* completed with no transport failure, device bytes [0, 32) are 28 zero   *)
(* bytes, then the checksum of the whole content, then L itself (not L     *)
(* reduced by the 16-bit field), and device bytes [32, 32 + L) are the     *)
(* source content.  Reads that follow leave it so.                         *)
C12_StoredLayout ==
    last = "done" =>
        LET B == Source(src0)
            region == DevRead(mem, to_be_bytes(0), 32)
        IN  /\ Len(B) <= MAX_CONTENT_SIZE
            /\ SubSeq(region, 1, 28) = Zeros(28)
            /\ MetadataOn(mem).content_crc = checksum(B)
            /\ MetadataOn(mem).content_size = Len(B)
            /\ DevRead(mem, to_be_bytes(32), Len(B)) = B

\* a one-page file was written over an erased device
C12_Witness ==
    /\ cmd.sub = "write"
    /\ pc = "done"
    /\ last = "done"
    /\ src0 = "page"
    /\ mem0 = Erased
    /\ MetadataOn(mem) = Metadata(checksum(Source("page")), 32)

(* C13: in the write path a settling delay follows every successful bus    *)
(* write before the next bus write is issued: between the metadata write   *)
(* and the first chunk write, and between two consecutive chunk writes,    *)
(* there is exactly one delay; a completed write ends with the delay that  *)
(* follows its last bus write.                                             *)
C13_SettlingDelays ==
    cmd.sub = "write" =>
        /\ \A i \in DOMAIN bus :
              (bus[i].kind = "write" /\ i < Len(bus)) =>
                  /\ bus[i].ok
                  /\ bus[i + 1] = Delay
                  /\ i + 2 <= Len(bus) => bus[i + 2].kind = "write"
        /\ \A i \in DOMAIN bus : bus[i].kind = "delay" =>
              (i > 1 /\ bus[i - 1].kind = "write" /\ bus[i - 1].ok)
        /\ pc = "w_chunk" => (bus # <<>> /\ bus[Len(bus)] = Delay)
        /\ pc = "done" => (bus # <<>> /\ bus[Len(bus)] = Delay)

\* metadata write, delay, chunk write, delay, chunk write, delay
C13_Witness ==
    /\ cmd.sub = "write"
    /\ pc = "done"
    /\ Len(bus) = 6
    /\ bus[1].region = "metadata"
    /\ bus[2] = Delay
    /\ bus[3].region = "content"
    /\ bus[4] = Delay
    /\ bus[5].region = "content"
    /\ bus[6] = Delay

(* C14: in the read path the destination is written only after every       *)
(* earlier stage succeeded: the metadata read, the decoding, the length    *)
(* bound, the emptiness policy, the content read and, unless --ignore-crc, *)
(* the checksum comparison.                                                *)
DestinationAfterAllStages ==
    (cmd.sub = "read" /\ destination.written) =>
        /\ pc \in {"done", "aborted"}
        /\ Len(bus) = 3
        /\ bus[1].kind = "read" /\ bus[1].region = "metadata" /\ bus[1].ok
        /\ bus[2] = Delay
        /\ bus[3].kind = "read" /\ bus[3].region = "content" /\ bus[3].ok
        /\ deserialize(metadata_buffer).ok
        /\ metadata = deserialize(metadata_buffer).value
        /\ metadata.content_size <= MAX_CONTENT_SIZE
        /\ cmd.allow_empty \/ metadata.content_size # 0
        /\ content_buffer = FileOn(mem)
        /\ cmd.ignore_crc \/ checksum(content_buffer) = metadata.content_crc
        /\ pc = "done" => destination.bytes = content_buffer

\* C14 as stated: and a read that aborts at any stage leaves the
\* destination unwritten
C14_AbortLeavesDestinationUnwritten ==
    /\ DestinationAfterAllStages
    /\ (cmd.sub = "read" /\ pc = "aborted") => ~destination.written

\* C14 amended: and a read that aborts at any stage before the destination
\* write leaves the destination unwritten; a read that aborts because the
\* destination write failed leaves it untouched or holding the first bytes
\* of the content
C14_AbortBeforeSinkLeavesDestinationUnwritten ==
    /\ DestinationAfterAllStages
    /\ (cmd.sub = "read" /\ pc = "aborted") =>
          IF error = "write_destination"
          THEN destination.written =>
                  \E n \in 0..Len(content_buffer) :
                      destination.bytes = SubSeq(content_buffer, 1, n)
          ELSE ~destination.written

\* a read of a valid file aborted in the destination write, which left a
\* part of the content behind
C14_Witness ==
    /\ cmd.sub = "read"
    /\ pc = "aborted"
    /\ error = "write_destination"
    /\ DefaultFlags
    /\ destination.written
    /\ Len(destination.bytes) > 0
    /\ destination.bytes # content_buffer

(* C15: for every file length L with 0 <= L <= MAX_CONTENT_SIZE every bus  *)
(* write of the write path stays inside the device address space and its   *)
(* own region: the metadata write covers exactly [0, 32), every chunk      *)
(* write covers a range inside [32, 8192), and CONTENT_OFFSET + 32 * index *)
(* computed in 16 bits equals the same sum computed without a width.       *)
C15_WritesInsideRegions ==
    (cmd.sub = "write" /\ Len(content_buffer) <= MAX_CONTENT_SIZE) =>
        /\ \A i \in DOMAIN bus : bus[i].kind = "write" =>
              IF bus[i].region = "metadata"
              THEN bus[i].offset = 0 /\ bus[i].size = 32
              ELSE /\ 32 <= bus[i].offset
                   /\ bus[i].size >= 1
                   /\ bus[i].offset + bus[i].size <= 8192
                   /\ bus[i].offset = 32 + 32 * ((i - 3) \div 2)
        /\ \A i \in 0..(NumChunks(content_buffer) - 1) :
              /\ 32 * i < 65536
              /\ 32 + 32 * i < 65536
              /\ ChunkOffset(i) = 32 + 32 * i

\* the second chunk of the largest file went to offset 64
C15_Witness ==
    /\ cmd.sub = "write"
    /\ Len(content_buffer) = MAX_CONTENT_SIZE
    /\ Len(bus) >= 5
    /\ bus[5].kind = "write"
    /\ bus[5].offset = 64
    /\ bus[5].size = 32

(* C16: no bus write of the write path crosses a 32-byte page boundary of  *)
(* the device: the metadata write covers exactly page 0, and every chunk   *)
(* write starts at a multiple of 32 and carries at most 32 payload bytes.  *)
C16_NoPageCrossing ==
    cmd.sub = "write" =>
        \A i \in DOMAIN bus : bus[i].kind = "write" =>
            /\ bus[i].size = Len(bus[i].data)
            /\ bus[i].size >= 1
            /\ bus[i].offset \div 32 = (bus[i].offset + bus[i].size - 1) \div 32
            /\ IF bus[i].region = "metadata"
               THEN bus[i].offset = 0 /\ bus[i].size = 32
               ELSE bus[i].offset % 32 = 0 /\ bus[i].size <= 32

\* a full page and a short chunk were written, each within its page
C16_Witness ==
    /\ cmd.sub = "write"
    /\ Len(bus) >= 5
    /\ bus[3].kind = "write" /\ bus[3].offset = 32 /\ bus[3].size = 32
    /\ bus[5].kind = "write" /\ bus[5].offset = 64 /\ bus[5].size = 3
    /\ bus[5].ok

(* C17: a write of content of length L, completed or aborted, changes no   *)
(* device byte at an address >= 32 + L, so what a longer file left there   *)
(* stays; a read after a completed write fetches exactly L content bytes   *)
(* and delivers nothing but the written content, whatever the flags.       *)
C17_WriteFrame ==
    last # "none" =>
        LET B == Source(src0)
        IN  /\ mem.fill = mem0.fill
            /\ \A a \in DOMAIN mem.bytes \cup DOMAIN mem0.bytes :
                  a >= 32 + Len(B) => Peek(mem, a) = Peek(mem0, a)
            /\ (cmd.sub = "read" /\ last = "done") =>
                  /\ \A i \in DOMAIN bus :
                        (bus[i].kind = "read" /\ bus[i].region = "content") =>
                            bus[i].offset = 32 /\ bus[i].size = Len(B)
                  /\ destination.written =>
                        destination.bytes = SubSeq(B, 1, Len(destination.bytes))
                  /\ pc = "done" => destination.bytes = B

\* a 5-byte file was written over a 35-byte one, whose bytes stay behind
\* it, and a read delivered the 5 bytes
C17_Witness ==
    /\ last = "done"
    /\ src0 = "hello"
    /\ Len(FileOn(mem0)) = 35
    /\ Peek(mem, 32 + 5) = 65
    /\ Peek(mem, 32 + 34) = 49
    /\ cmd.sub = "read"
    /\ pc = "done"
    /\ destination.bytes = Source("hello")

(* C18: the read path never changes the device memory, whatever the flags  *)
(* and the device state and whether the read succeeds or aborts, and it    *)
(* issues at most two bus transfers: the metadata read of 32 bytes at      *)
(* offset 0, then at most one content read of exactly content_size bytes   *)
(* at offset 32.                                                           *)
ReadTransfers ==
    cmd.sub = "read" =>
        /\ Cardinality(Transfers) <= 2
        /\ \A i \in Transfers :
              /\ bus[i].kind = "read"
              /\ IF i = 1
                 THEN /\ bus[i].region = "metadata"
                      /\ bus[i].offset = 0
                      /\ bus[i].size = 32
                 ELSE /\ i = 3
                      /\ bus[1].ok
                      /\ bus[i].region = "content"
                      /\ bus[i].offset = 32
                      /\ bus[i].size = metadata.content_size
                      /\ metadata = MetadataOn(mem)

ReadKeepsMemory ==
    (cmd.sub = "read" \/ cmd'.sub = "read") => mem' = mem

C18_ReadOnly == []ReadTransfers /\ [][ReadKeepsMemory]_vars

\* a read of a 35-byte file made its two transfers and the device still
\* holds the file
C18_Witness ==
    /\ cmd.sub = "read"
    /\ pc = "done"
    /\ Cardinality(Transfers) = 2
    /\ bus[3].size = 35
    /\ mem = Stored(Source("fileA"))

====
